---- MODULE Spec2Model ----
(***************************************************************************)
(* Model of processArgsArray (src/index.js): the spec compiler parseSpec,  *)
(* the existence validator checkFile and the argument scanner parseArgs.   *)
(*                                                                         *)
(* A JavaScript string is a sequence of one-character strings, so that     *)
(* toLowerCase, split, startsWith and slice are computed, not assumed.     *)
(* A JavaScript value (boolean, number, NaN, string, array of strings,     *)
(* null) is a record of one fixed shape tagged by its type.                *)
(***************************************************************************)
EXTENDS Integers, Sequences, FiniteSets, TLC

\* ------------------------------------------------------------------------
\* Bounds of the model
\* ------------------------------------------------------------------------
MaxArgs == 2          \* longest token list (args) explored

\* ------------------------------------------------------------------------
\* JavaScript strings
\* ------------------------------------------------------------------------
UpperLetters ==
    << "A","B","C","D","E","F","G","H","I","J","K","L","M",
       "N","O","P","Q","R","S","T","U","V","W","X","Y","Z" >>

LowerLetters ==
    << "a","b","c","d","e","f","g","h","i","j","k","l","m",
       "n","o","p","q","r","s","t","u","v","w","x","y","z" >>

Digits == << "0","1","2","3","4","5","6","7","8","9" >>

\* the lower-case letter of each upper-case letter
UpperToLower ==
    [c \in { UpperLetters[k] : k \in 1..Len(UpperLetters) } |->
        LowerLetters[CHOOSE k \in 1..Len(UpperLetters) : UpperLetters[k] = c]]

\* one character of String.prototype.toLowerCase
LowerChar(c) == IF c \in DOMAIN UpperToLower THEN UpperToLower[c] ELSE c

\* String.prototype.toLowerCase
toLowerCase(s) == [k \in 1..Len(s) |-> LowerChar(s[k])]

\* index of the first occurrence of the character sep in s, 0 when absent
IndexOf(s, sep) ==
    LET hits == { k \in 1..Len(s) : s[k] = sep }
    IN IF hits = {} THEN 0 ELSE CHOOSE k \in hits : \A j \in hits : k <= j

\* String.prototype.split(sep) for a one-character separator: every
\* occurrence of sep separates two parts ("a=b=c" gives <<"a","b","c">>)
RECURSIVE split(_, _)
split(s, sep) ==
    LET k == IndexOf(s, sep)
    IN IF k = 0 THEN << s >>
       ELSE << SubSeq(s, 1, k - 1) >> \o split(SubSeq(s, k + 1, Len(s)), sep)

\* the text after the first occurrence of sep, for stating properties
AfterFirst(s, sep) == SubSeq(s, IndexOf(s, sep) + 1, Len(s))

\* the text before the first occurrence of sep, all of s when sep is
\* absent, for stating properties
BeforeFirst(s, sep) ==
    IF IndexOf(s, sep) = 0 THEN s ELSE SubSeq(s, 1, IndexOf(s, sep) - 1)

\* function isOption(arg): arg.startsWith("-")
isOption(arg) == Len(arg) >= 1 /\ arg[1] = "-"

\* function trimArg(arg): arg.slice(1) for an option, arg otherwise
trimArg(arg) == IF isOption(arg) THEN SubSeq(arg, 2, Len(arg)) ELSE arg

\* ------------------------------------------------------------------------
\* JavaScript values held by a result slot
\* ------------------------------------------------------------------------
VBool(b) == [t |-> "bool",  b |-> b,     n |-> 0, s |-> << >>, l |-> << >>]
VNum(n)  == [t |-> "num",   b |-> FALSE, n |-> n, s |-> << >>, l |-> << >>]
VStr(s)  == [t |-> "str",   b |-> FALSE, n |-> 0, s |-> s,     l |-> << >>]
VArr(l)  == [t |-> "array", b |-> FALSE, n |-> 0, s |-> << >>, l |-> l]
VNaN     == [t |-> "NaN",   b |-> FALSE, n |-> 0, s |-> << >>, l |-> << >>]
VNull    == [t |-> "null",  b |-> FALSE, n |-> 0, s |-> << >>, l |-> << >>]

\* /[^\d,_]/.test(val)
HasNonNumberChar(val) ==
    \E k \in 1..Len(val) :
        /\ \A d \in 1..Len(Digits) : Digits[d] # val[k]
        /\ val[k] # ","
        /\ val[k] # "_"

\* val.replace(/[,_]/g, "")
StripSeparators(val) == SelectSeq(val, LAMBDA c : c # "," /\ c # "_")

DigitValue(c) == (CHOOSE d \in 1..Len(Digits) : Digits[d] = c) - 1

\* the integer a non-empty string of decimal digits denotes
RECURSIVE DecimalValue(_)
DecimalValue(ds) ==
    IF Len(ds) = 0 THEN 0
    ELSE 10 * DecimalValue(SubSeq(ds, 1, Len(ds) - 1)) + DigitValue(ds[Len(ds)])

\* parseInt(ds, 10) on a string of decimal digits: NaN for the empty string
parseInt(ds) == IF Len(ds) = 0 THEN VNaN ELSE VNum(DecimalValue(ds))

\* ------------------------------------------------------------------------
\* node:path (posix) and node:fs
\* ------------------------------------------------------------------------
\* process.cwd(), the directory relative paths are resolved against
Cwd == << << "r" >> >>

\* "/" followed by the segments joined with "/"
RECURSIVE JoinSegments(_)
JoinSegments(segs) ==
    IF Len(segs) = 0 THEN << >>
    ELSE << "/" >> \o segs[1] \o JoinSegments(Tail(segs))

AbsolutePath(segs) == IF Len(segs) = 0 THEN << "/" >> ELSE JoinSegments(segs)

\* lexical normalisation of path segments from the directory cur
RECURSIVE NormalizeFrom(_, _)
NormalizeFrom(cur, segs) ==
    IF Len(segs) = 0 THEN cur
    ELSE LET seg == segs[1]
         IN IF seg = << >> \/ seg = << "." >>
            THEN NormalizeFrom(cur, Tail(segs))
            ELSE IF seg = << ".", "." >>
            THEN NormalizeFrom(IF Len(cur) = 0 THEN cur
                               ELSE SubSeq(cur, 1, Len(cur) - 1), Tail(segs))
            ELSE NormalizeFrom(Append(cur, seg), Tail(segs))

IsAbsolute(p) == Len(p) >= 1 /\ p[1] = "/"

\* path.resolve(p): the absolute, normalised form of p
resolve(p) ==
    AbsolutePath(NormalizeFrom(IF IsAbsolute(p) THEN << >> ELSE Cwd,
                               split(p, "/")))

\* path.dirname(p)
dirname(p) ==
    LET cut == { k \in 2..Len(p) :
                    p[k] = "/" /\ \E j \in (k+1)..Len(p) : p[j] # "/" }
    IN IF cut = {}
       THEN (IF IsAbsolute(p) THEN << "/" >> ELSE << "." >>)
       ELSE LET end == CHOOSE k \in cut : \A j \in cut : j <= k
            IN IF IsAbsolute(p) /\ end = 2 THEN << "/", "/" >>
               ELSE SubSeq(p, 1, end - 1)

\* the kind of the entry at an absolute path in the filesystem f:
\* "file", "dir" or "none"
EntryKind(f, segs) ==
    IF Len(segs) = 0 THEN "dir"
    ELSE IF AbsolutePath(segs) \in DOMAIN f THEN f[AbsolutePath(segs)]
    ELSE "none"

\* the walk fs.statSync makes along the segments of a path: every segment
\* is looked up in a directory, so a missing entry on the way is ENOENT and
\* a regular file used as a directory is ENOTDIR
RECURSIVE StatWalk(_, _, _)
StatWalk(f, cur, segs) ==
    IF Len(segs) = 0 THEN EntryKind(f, cur)
    ELSE IF EntryKind(f, cur) = "none" THEN "ENOENT"
    ELSE IF EntryKind(f, cur) = "file" THEN "ENOTDIR"
    ELSE LET seg == segs[1]
         IN IF seg = << >> \/ seg = << "." >>
            THEN StatWalk(f, cur, Tail(segs))
            ELSE IF seg = << ".", "." >>
            THEN StatWalk(f, IF Len(cur) = 0 THEN cur
                             ELSE SubSeq(cur, 1, Len(cur) - 1), Tail(segs))
            ELSE StatWalk(f, Append(cur, seg), Tail(segs))

\* fs.statSync(p): "file" or "dir" for the stats of an existing entry,
\* "ENOENT" or "ENOTDIR" for the code of the error it throws
statSync(f, p) ==
    IF Len(p) = 0 THEN "ENOENT"
    ELSE LET r == StatWalk(f, IF IsAbsolute(p) THEN << >> ELSE Cwd,
                           split(p, "/"))
         IN IF r = "none" THEN "ENOENT" ELSE r

\* const types: the stats method each checkFile type asks for
types == [file |-> "file", dir |-> "dir", filepath |-> "dir"]

\* checkFile probing the path itself for every type, filepath included
checkFileWholePath(f, val, type) ==
    LET stats == statSync(f, val)
    IN IF stats = "ENOENT" THEN "NotFound"
       ELSE IF stats = "ENOTDIR" THEN "ENOTDIR"
       ELSE IF stats = types[type] THEN "ok"
       ELSE "WrongKind"

\* function checkFile(val, wholeArg, type): "ok" when it returns true,
\* otherwise the error it throws
checkFile(f, val, type) ==
    LET pathToCheck == IF type = "filepath" THEN dirname(val) ELSE val
        stats       == statSync(f, pathToCheck)
    IN IF stats = "ENOENT" THEN "NotFound"
       ELSE IF stats = "ENOTDIR" THEN "ENOTDIR"
       ELSE IF stats = types[type] THEN "ok"
       ELSE "WrongKind"

\* ------------------------------------------------------------------------
\* The spec compiler: parseSpec
\* ------------------------------------------------------------------------
TFlag     == << "f", "l", "a", "g" >>
TNum      == << "n", "u", "m" >>
TStr      == << "s", "t", "r" >>
TYesNo    == << "y", "e", "s", "n", "o" >>
TDir      == << "d", "i", "r" >>
TFile     == << "f", "i", "l", "e" >>
TFilePath == << "f", "i", "l", "e", "p", "a", "t", "h" >>
TDirs     == << "[", "d", "i", "r", "]" >>
TFiles    == << "[", "f", "i", "l", "e", "]" >>
TStrs     == << "[", "s", "t", "r", "]" >>
TList     == << "l", "i", "s", "t" >>

\* const possibleTypes
possibleTypes ==
    { TStr, TNum, TFile, TDir, TYesNo, TFlag, TFilePath, TDirs, TFiles, TStrs, TList }

\* the key of the unnamed array in result
UnnamedKey == << "u", "n", "n", "a", "m", "e", "d" >>

\* const result = { unnamed: [] }: a property of result refers to the
\* unnamed array or to one resultObj, by its place in objs
ArrayRef == [kind |-> "array", id |-> 0]

\* one resultObj created outside the loop and shared by every declaration
ObjRefShared(id) == [kind |-> "obj", id |-> 1]

\* a reference to the resultObj created by the declaration numbered id
ObjRef(id) == [kind |-> "obj", id |-> id]

EmptyResult == [k \in {UnnamedKey} |-> ArrayRef]

\* const spec = {}
EmptySpec == [k \in {} |-> [type |-> TFlag, hasList |-> FALSE, allowedValues |-> {}]]

\* const [arg, type = "flag", list] = data[i].split("=") and
\* const [arg1, arg2] = arg.split("|"): the parts a declaration string is
\* taken apart into; hasList and hasArg2 are the tests (list ? ...) and
\* if (arg2), false for an absent or empty part
Declaration(decl) ==
    LET parts == split(decl, "=")
        names == split(parts[1], "|")
    IN [arg1    |-> names[1],
        hasArg2 |-> Len(names) >= 2 /\ names[2] # << >>,
        arg2    |-> IF Len(names) >= 2 THEN names[2] ELSE << >>,
        type    |-> IF Len(parts) >= 2 THEN parts[2] ELSE TFlag,
        hasList |-> Len(parts) >= 3 /\ parts[3] # << >>,
        list    |-> IF Len(parts) >= 3 THEN parts[3] ELSE << >>]

\* new Set(list.toLowerCase().split(","))
AllowedValuesOf(list) ==
    LET parts == split(toLowerCase(list), ",")
    IN { parts[k] : k \in 1..Len(parts) }

\* const specObj = { type, allowedValues }
SpecObjOf(d) ==
    [type          |-> d.type,
     hasList       |-> d.hasList,
     allowedValues |-> IF d.hasList THEN AllowedValuesOf(d.list) ELSE {}]

\* the result keys the primary name of a declaration gets
PrimaryKeys(d) == { trimArg(toLowerCase(d.arg1)), trimArg(d.arg1) }

\* the result keys the synonym of a declaration gets
SynonymKeys(d) == IF d.hasArg2 THEN { trimArg(toLowerCase(d.arg2)) } ELSE {}

\* the spec keys of a declaration
SpecKeys(d) ==
    { toLowerCase(d.arg1) } \cup (IF d.hasArg2 THEN { toLowerCase(d.arg2) } ELSE {})

\* the synonym keys set to the resultObj of the first declaration
SynonymRefFirst(id) == [kind |-> "obj", id |-> 1]

\* what the synonym keys of a declaration are set to: the resultObj of
\* the declaration, the one its primary keys refer to
SynonymRef(id) == ObjRef(id)

\* one iteration of the loop of parseSpec, on the declaration string decl
\* with the default value def
ParseDecl(st, decl, def) ==
    LET d == Declaration(decl)
    IN IF d.type \notin possibleTypes
       THEN [st EXCEPT !.err = "SpecError"]
       ELSE LET id      == Len(st.objs) + 1
                pkeys   == PrimaryKeys(d)
                skeys   == SynonymKeys(d)
                spkeys  == SpecKeys(d)
                specObj == SpecObjOf(d)
                res1 == [k \in (DOMAIN st.result) \cup pkeys |->
                           IF k \in pkeys THEN ObjRef(id) ELSE st.result[k]]
                res2 == [k \in (DOMAIN res1) \cup skeys |->
                           IF k \in skeys THEN SynonymRef(id) ELSE res1[k]]
                sp   == [k \in (DOMAIN st.spec) \cup spkeys |->
                           IF k \in spkeys THEN specObj ELSE st.spec[k]]
            IN [result |-> res2,
                spec   |-> sp,
                objs   |-> Append(st.objs, [value |-> def, present |-> FALSE]),
                err    |-> "none"]

\* function parseSpec(): for (let i = 0; i < data.length; i += 2)
RECURSIVE ParseSpecFrom(_, _, _)
ParseSpecFrom(st, d, k) ==
    IF k > Len(d) \/ st.err # "none" THEN st
    ELSE ParseSpecFrom(ParseDecl(st, d[k].s, d[k + 1]), d, k + 2)

CompiledSpec(d) ==
    ParseSpecFrom([result |-> EmptyResult, spec |-> EmptySpec,
                   objs |-> << >>, err |-> "none"], d, 1)

\* ------------------------------------------------------------------------
\* The argument scanner: parseArgs
\* ------------------------------------------------------------------------
\* let [argOrig, val] = wholeArg.split("="): the first two parts of the
\* split; val is undefined when the token holds no "="
ArgOrig(wholeArg) == split(wholeArg, "=")[1]
HasVal(wholeArg)  == Len(split(wholeArg, "=")) >= 2
Val(wholeArg)     == IF HasVal(wholeArg) THEN split(wholeArg, "=")[2] ELSE << >>

\* the lookup key without the case fold
ArgKeyVerbatim(argOrig) == argOrig

\* const arg = argOrig.toLowerCase()
ArgKey(argOrig) == toLowerCase(argOrig)

\* setValue marking the slot present without storing the value
setValuePresentOnly(res, objs, resultName, val) ==
    [objs EXCEPT ![res[resultName].id].present = TRUE]

\* function setValue(resultName, val)
setValue(res, objs, resultName, val) ==
    [objs EXCEPT ![res[resultName].id] = [value |-> val, present |-> TRUE]]

\* the yes/no words
YesWords == { << "y" >>, << "y", "e", "s" >>, << "1" >> }
NoWords  == { << "n" >>, << "n", "o" >>, << "0" >> }

\* the error of the first element of parts that checkFile rejects, "ok"
\* when it accepts them all
RECURSIVE CheckParts(_, _, _)
CheckParts(f, parts, type) ==
    IF Len(parts) = 0 THEN "ok"
    ELSE IF checkFile(f, parts[1], type) # "ok" THEN checkFile(f, parts[1], type)
    ELSE CheckParts(f, Tail(parts), type)

ResolveAll(parts) == [k \in 1..Len(parts) |-> resolve(parts[k])]

\* case "list" without its membership test
IsAllowedAny(specObj, val) == TRUE

\* the membership test of case "list"
IsAllowed(specObj, val) == val \in specObj.allowedValues

\* the switch (type) of parseArgs on a token with a value: the slots and
\* the error after the case of the type ran
CoerceAndSet(res, f, objs, specObj, resultName, val) ==
    LET type  == specObj.type
        ok(v) == [objs |-> setValue(res, objs, resultName, v), err |-> "none"]
        no(e) == [objs |-> objs, err |-> e]
    IN CASE type = TNum ->
              IF HasNonNumberChar(val) THEN no("ReferenceError")
              ELSE ok(parseInt(StripSeparators(val)))
         [] type = TStr -> ok(VStr(val))
         [] type = TStrs -> ok(VArr(split(val, ";")))
         [] type = TYesNo ->
              IF toLowerCase(val) \in YesWords THEN ok(VBool(TRUE))
              ELSE IF toLowerCase(val) \in NoWords THEN ok(VBool(FALSE))
              ELSE no("InvalidYesNo")
         [] type = TDir ->
              IF checkFile(f, val, "dir") # "ok" THEN no(checkFile(f, val, "dir"))
              ELSE ok(VStr(resolve(val)))
         [] type = TFile ->
              IF checkFile(f, val, "file") # "ok" THEN no(checkFile(f, val, "file"))
              ELSE ok(VStr(resolve(val)))
         [] type = TDirs ->
              IF CheckParts(f, split(val, ";"), "dir") # "ok"
              THEN no(CheckParts(f, split(val, ";"), "dir"))
              ELSE ok(VArr(ResolveAll(split(val, ";"))))
         [] type = TFiles ->
              IF CheckParts(f, split(val, ";"), "file") # "ok"
              THEN no(CheckParts(f, split(val, ";"), "file"))
              ELSE ok(VArr(ResolveAll(split(val, ";"))))
         [] type = TFilePath ->
              IF checkFile(f, val, "filepath") # "ok"
              THEN no(checkFile(f, val, "filepath"))
              ELSE ok(VStr(resolve(val)))
         [] type = TList ->
              IF ~specObj.hasList THEN no("TypeError")
              ELSE IF ~IsAllowed(specObj, val) THEN no("InvalidChoice")
              ELSE ok(VStr(val))
         [] OTHER -> no("UnexpectedType")

\* result.unnamed.push(wholeArg): result.unnamed is the array unless a
\* declaration assigned a resultObj to the key "unnamed"
PushUnnamed(res, st, wholeArg) ==
    IF res[UnnamedKey].kind = "array"
    THEN [st EXCEPT !.unnamed = Append(st.unnamed, wholeArg)]
    ELSE [st EXCEPT !.err = "TypeError"]

\* the body of the loop of parseArgs on the token wholeArg; st holds the
\* resultObjs, the unnamed array and the error thrown ("none" when none)
ScanArg(res, sp, f, st, wholeArg) ==
    IF ~isOption(wholeArg) THEN PushUnnamed(res, st, wholeArg)
    ELSE LET arg == ArgKey(ArgOrig(wholeArg))
         IN IF arg \notin DOMAIN sp
            THEN [st EXCEPT !.err = "UnknownArgument"]
            ELSE LET specObj    == sp[arg]
                     resultName == trimArg(arg)
                 IN IF specObj.type = TFlag
                    THEN [st EXCEPT
                            !.objs = setValue(res, st.objs, resultName, VBool(TRUE))]
                    ELSE IF ~HasVal(wholeArg) \/ Val(wholeArg) = << >>
                    THEN [st EXCEPT !.err = "MissingValue"]
                    ELSE LET r == CoerceAndSet(res, f, st.objs, specObj,
                                               resultName, Val(wholeArg))
                         IN [st EXCEPT !.objs = r.objs, !.err = r.err]

\* ------------------------------------------------------------------------
\* The inputs explored: specifications (the data array, declarations and
\* default values alternating), the tokens tried against each, filesystems
\* ------------------------------------------------------------------------
\* ["-nodisk", false, "-Workers|-W=num", 0, "-Name=str", ""]
BasicData ==
    << VStr(<< "-", "n", "o", "d", "i", "s", "k" >>), VBool(FALSE),
       VStr(<< "-", "W", "o", "r", "k", "e", "r", "s", "|", "-", "W", "=", "n", "u", "m" >>), VNum(0),
       VStr(<< "-", "N", "a", "m", "e", "=", "s", "t", "r" >>), VStr(<< >>) >>
\* -nodisk  -NoDisk=1  -W=5  -workers=1,0_2  -w=12a  -w=,  -name=a=b  -NAME=x  -Name=x  -name=x  -name  -bogus=1  x  y
BasicTokens ==
    { << "-", "n", "o", "d", "i", "s", "k" >>,
      << "-", "N", "o", "D", "i", "s", "k", "=", "1" >>,
      << "-", "W", "=", "5" >>,
      << "-", "w", "o", "r", "k", "e", "r", "s", "=", "1", ",", "0", "_", "2" >>,
      << "-", "w", "=", "1", "2", "a" >>,
      << "-", "w", "=", "," >>,
      << "-", "n", "a", "m", "e", "=", "a", "=", "b" >>,
      << "-", "N", "A", "M", "E", "=", "x" >>,
      << "-", "N", "a", "m", "e", "=", "x" >>,
      << "-", "n", "a", "m", "e", "=", "x" >>,
      << "-", "n", "a", "m", "e" >>,
      << "-", "b", "o", "g", "u", "s", "=", "1" >>,
      << "x" >>,
      << "y" >> }
\* ["-mode=list=fast,slow", "fast", "-Sort=list=Name,Size", null, "-disk=yesno", true, "-names=[str]", []]
ChoiceData ==
    << VStr(<< "-", "m", "o", "d", "e", "=", "l", "i", "s", "t", "=", "f", "a", "s", "t", ",", "s", "l", "o", "w" >>), VStr(<< "f", "a", "s", "t" >>),
       VStr(<< "-", "S", "o", "r", "t", "=", "l", "i", "s", "t", "=", "N", "a", "m", "e", ",", "S", "i", "z", "e" >>), VNull,
       VStr(<< "-", "d", "i", "s", "k", "=", "y", "e", "s", "n", "o" >>), VBool(TRUE),
       VStr(<< "-", "n", "a", "m", "e", "s", "=", "[", "s", "t", "r", "]" >>), VArr(<< >>) >>
\* -mode=fast  -mode=FAST  -MODE=fast  -mode=medium  -sort=size  -sort=Name  -disk=Y  -disk=no  -disk=maybe  -names=a;b  -mode  x
ChoiceTokens ==
    { << "-", "m", "o", "d", "e", "=", "f", "a", "s", "t" >>,
      << "-", "m", "o", "d", "e", "=", "F", "A", "S", "T" >>,
      << "-", "M", "O", "D", "E", "=", "f", "a", "s", "t" >>,
      << "-", "m", "o", "d", "e", "=", "m", "e", "d", "i", "u", "m" >>,
      << "-", "s", "o", "r", "t", "=", "s", "i", "z", "e" >>,
      << "-", "s", "o", "r", "t", "=", "N", "a", "m", "e" >>,
      << "-", "d", "i", "s", "k", "=", "Y" >>,
      << "-", "d", "i", "s", "k", "=", "n", "o" >>,
      << "-", "d", "i", "s", "k", "=", "m", "a", "y", "b", "e" >>,
      << "-", "n", "a", "m", "e", "s", "=", "a", ";", "b" >>,
      << "-", "m", "o", "d", "e" >>,
      << "x" >> }
\* ["-dirs=[dir]", null, "-out=filepath", null, "-file=file", "", "-dir=dir", "", "-in=[file]", []]
PathData ==
    << VStr(<< "-", "d", "i", "r", "s", "=", "[", "d", "i", "r", "]" >>), VNull,
       VStr(<< "-", "o", "u", "t", "=", "f", "i", "l", "e", "p", "a", "t", "h" >>), VNull,
       VStr(<< "-", "f", "i", "l", "e", "=", "f", "i", "l", "e" >>), VStr(<< >>),
       VStr(<< "-", "d", "i", "r", "=", "d", "i", "r" >>), VStr(<< >>),
       VStr(<< "-", "i", "n", "=", "[", "f", "i", "l", "e", "]" >>), VArr(<< >>) >>
\* -dirs=./a;b  -dirs=a;f  -dirs=a;zz  -out=a/n  -out=zz/n  -out=n  -file=f  -file=a  -dir=a  -dir=f/  -in=f;/r/f  -in=f;zz  x
PathTokens ==
    { << "-", "d", "i", "r", "s", "=", ".", "/", "a", ";", "b" >>,
      << "-", "d", "i", "r", "s", "=", "a", ";", "f" >>,
      << "-", "d", "i", "r", "s", "=", "a", ";", "z", "z" >>,
      << "-", "o", "u", "t", "=", "a", "/", "n" >>,
      << "-", "o", "u", "t", "=", "z", "z", "/", "n" >>,
      << "-", "o", "u", "t", "=", "n" >>,
      << "-", "f", "i", "l", "e", "=", "f" >>,
      << "-", "f", "i", "l", "e", "=", "a" >>,
      << "-", "d", "i", "r", "=", "a" >>,
      << "-", "d", "i", "r", "=", "f", "/" >>,
      << "-", "i", "n", "=", "f", ";", "/", "r", "/", "f" >>,
      << "-", "i", "n", "=", "f", ";", "z", "z" >>,
      << "x" >> }
\* ["-unnamed", false, "-v", false, "-kind=list", null]
ClashData ==
    << VStr(<< "-", "u", "n", "n", "a", "m", "e", "d" >>), VBool(FALSE),
       VStr(<< "-", "v" >>), VBool(FALSE),
       VStr(<< "-", "k", "i", "n", "d", "=", "l", "i", "s", "t" >>), VNull >>
\* -unnamed  -v  -kind=a  x
ClashTokens ==
    { << "-", "u", "n", "n", "a", "m", "e", "d" >>,
      << "-", "v" >>,
      << "-", "k", "i", "n", "d", "=", "a" >>,
      << "x" >> }
\* ["-n=num", 0, "-x=bogus", 0]
BadData ==
    << VStr(<< "-", "n", "=", "n", "u", "m" >>), VNum(0),
       VStr(<< "-", "x", "=", "b", "o", "g", "u", "s" >>), VNum(0) >>
\* -n=1  x
BadTokens ==
    { << "-", "n", "=", "1" >>,
      << "x" >> }

\* /r/a and /r/b are directories, /r/f is a regular file
TreeFs ==
    [p \in { << "/", "r" >>, << "/", "r", "/", "a" >>, << "/", "r", "/", "b" >>, << "/", "r", "/", "f" >> } |->
        IF p = << "/", "r", "/", "f" >> THEN "file" ELSE "dir"]

\* /r/a and /r/f are regular files, /r/b does not exist
FlatFs ==
    [p \in { << "/", "r" >>, << "/", "r", "/", "a" >>, << "/", "r", "/", "f" >> } |->
        IF p = << "/", "r" >> THEN "dir" ELSE "file"]

Scenarios ==
    { [data |-> BasicData,  tokens |-> BasicTokens,  fss |-> { TreeFs }],
      [data |-> ChoiceData, tokens |-> ChoiceTokens, fss |-> { TreeFs }],
      [data |-> PathData,   tokens |-> PathTokens,   fss |-> { TreeFs, FlatFs }],
      [data |-> ClashData,  tokens |-> ClashTokens,  fss |-> { TreeFs }],
      [data |-> BadData,    tokens |-> BadTokens,    fss |-> { TreeFs }] }

\* the token lists of at most MaxArgs tokens
ArgLists(tokens) == UNION { [1..n -> tokens] : n \in 0..MaxArgs }

\* ------------------------------------------------------------------------
\* processArgsArray(data, args, exit) as a state machine
\* ------------------------------------------------------------------------
VARIABLES
    data,      \* the specification array
    args,      \* the token list
    exit,      \* the exit parameter
    fs,        \* the filesystem statSync reads
    pc,        \* "parseSpec", "parseArgs", "catch", "returned", "exited", "thrown"
    i,         \* the number of tokens of args the loop of parseArgs has passed
    result,    \* the keys of result, each referring to the array or a resultObj
    objs,      \* the resultObj objects { value, present }, in creation order
    unnamed,   \* the array created as result.unnamed
    spec,      \* the spec object
    err        \* the error thrown, "none" when none

vars == << data, args, exit, fs, pc, i, result, objs, unnamed, spec, err >>
inputs == << data, args, exit, fs >>

\* the state on entry to the try block, with data an array (the test
\* Array.isArray(data) passes)
Init ==
    /\ \E sc \in Scenarios :
          /\ data = sc.data
          /\ args \in ArgLists(sc.tokens)
          /\ fs \in sc.fss
    /\ exit \in BOOLEAN
    /\ pc = "parseSpec"
    /\ i = 0
    /\ result = EmptyResult
    /\ objs = << >>
    /\ unnamed = << >>
    /\ spec = EmptySpec
    /\ err = "none"

\* parseSpec(): compiles data into spec and result, or throws
parseSpec ==
    /\ pc = "parseSpec"
    /\ LET st == CompiledSpec(data)
       IN /\ result' = st.result
          /\ spec' = st.spec
          /\ objs' = st.objs
          /\ err' = st.err
          /\ pc' = IF st.err = "none" THEN "parseArgs" ELSE "catch"
    /\ UNCHANGED << inputs, i, unnamed >>

\* the loop with the error of a failing token recorded and the scan going on
parseArgsSkipFailed ==
    /\ pc = "parseArgs"
    /\ i < Len(args)
    /\ LET st == ScanArg(result, spec, fs,
                         [objs |-> objs, unnamed |-> unnamed, err |-> "none"],
                         args[i + 1])
       IN /\ objs' = st.objs
          /\ unnamed' = st.unnamed
          /\ err' = IF st.err = "none" THEN err ELSE st.err
          /\ i' = i + 1
          /\ pc' = "parseArgs"
    /\ UNCHANGED << inputs, result, spec >>

\* one iteration of for (const wholeArg of args)
parseArgs ==
    /\ pc = "parseArgs"
    /\ i < Len(args)
    /\ LET st == ScanArg(result, spec, fs,
                         [objs |-> objs, unnamed |-> unnamed, err |-> "none"],
                         args[i + 1])
       IN /\ objs' = st.objs
          /\ unnamed' = st.unnamed
          /\ err' = st.err
          /\ i' = IF st.err = "none" THEN i + 1 ELSE i
          /\ pc' = IF st.err = "none" THEN "parseArgs" ELSE "catch"
    /\ UNCHANGED << inputs, result, spec >>

\* return result, once the loop has passed every token
Return ==
    /\ pc = "parseArgs"
    /\ i = Len(args)
    /\ pc' = "returned"
    /\ UNCHANGED << inputs, i, result, objs, unnamed, spec, err >>

\* catch (e) with exit true: console.log(e); process.exit(1)
CatchExit ==
    /\ pc = "catch"
    /\ exit
    /\ pc' = "exited"
    /\ UNCHANGED << inputs, i, result, objs, unnamed, spec, err >>

\* catch (e) with exit false: throw e
CatchThrow ==
    /\ pc = "catch"
    /\ ~exit
    /\ pc' = "thrown"
    /\ UNCHANGED << inputs, i, result, objs, unnamed, spec, err >>

Next == parseSpec \/ parseArgs \/ Return \/ CatchExit \/ CatchThrow

Spec == Init /\ [][Next]_vars

\* ------------------------------------------------------------------------
\* Vocabulary of the properties
\* ------------------------------------------------------------------------
Failed == pc \in { "catch", "exited", "thrown" }

\* parseSpec returned normally
Compiled == pc \in { "parseArgs", "returned" } \/ (Failed /\ err # "SpecError")

\* a token failed in the scan
ScanFailed == Failed /\ err # "SpecError"

\* the indices of the declaration strings in data
DeclIndices == { k \in 1..Len(data) : k % 2 = 1 }

DeclOf(k)    == Declaration(data[k].s)
DefaultOf(k) == data[k + 1]

\* the declared names of declaration k, lower-cased, with their prefix
NamesOf(k) ==
    { toLowerCase(DeclOf(k).arg1) }
        \cup (IF DeclOf(k).hasArg2 THEN { toLowerCase(DeclOf(k).arg2) } ELSE {})

\* the slot a result key reports
Slot(key) == objs[result[key].id]

\* a token taken apart at its first "="
NamePart(t) == BeforeFirst(t, "=")
HasRaw(t)   == IndexOf(t, "=") # 0
RawValue(t) == AfterFirst(t, "=")

\* token t names declaration k, in any letter case
Naming(t, k) == isOption(t) /\ toLowerCase(NamePart(t)) \in NamesOf(k)

\* the last token the scan has passed
Passed == pc \in { "parseArgs", "returned" } /\ i >= 1

\* the result of scanning token t in the current state
Scanned(t) ==
    ScanArg(result, spec, fs,
            [objs |-> objs, unnamed |-> unnamed, err |-> "none"], t)

\* String.prototype.toUpperCase
UpperChar(c) ==
    IF \E k \in 1..Len(LowerLetters) : LowerLetters[k] = c
    THEN UpperLetters[CHOOSE k \in 1..Len(LowerLetters) : LowerLetters[k] = c]
    ELSE c

\* token t with its name part in upper case, in lower case
UpperName(t) ==
    [k \in 1..Len(t) |-> IF k <= Len(NamePart(t)) THEN UpperChar(t[k]) ELSE t[k]]
LowerName(t) ==
    [k \in 1..Len(t) |-> IF k <= Len(NamePart(t)) THEN LowerChar(t[k]) ELSE t[k]]

\* ------------------------------------------------------------------------
\* C1: after a successful parse, result.unnamed is the array of exactly the
\* tokens of args that do not start with "-", in their order in args.
\* Fails: a declaration named "unnamed" replaces the array by its resultObj.
\* ------------------------------------------------------------------------
C1_UnnamedIsPositionals ==
    pc = "returned" =>
        /\ result[UnnamedKey].kind = "array"
        /\ unnamed = SelectSeq(args, LAMBDA t : ~isOption(t))

\* ------------------------------------------------------------------------
\* C2: for a declaration with a synonym, the result keys of the primary
\* name and of the synonym report the same value and present at every
\* point from the end of parseSpec on, and once the scan has passed a token
\* under either name both report present = true (-W=5 makes workers and w
\* both report 5).  The specifications explored declare each name once.
\* ------------------------------------------------------------------------
C2_SynonymSharesSlot ==
    Compiled =>
        \A k \in DeclIndices :
            DeclOf(k).hasArg2 =>
                LET primary == trimArg(toLowerCase(DeclOf(k).arg1))
                    synonym == trimArg(toLowerCase(DeclOf(k).arg2))
                IN /\ primary \in DOMAIN result
                   /\ synonym \in DOMAIN result
                   /\ Slot(primary) = Slot(synonym)
                   /\ (Passed /\ Naming(args[i], k)) =>
                         /\ Slot(primary).present
                         /\ Slot(synonym).present
                   /\ (Passed /\ args[i] = << "-", "W", "=", "5" >>) =>
                         /\ Slot(<< "w", "o", "r", "k", "e", "r", "s" >>).value = VNum(5)
                         /\ Slot(<< "w" >>).value = VNum(5)

C2_Witness ==
    /\ Passed
    /\ args[i] = << "-", "W", "=", "5" >>
    /\ Slot(<< "w", "o", "r", "k", "e", "r", "s" >>) = [value |-> VNum(5), present |-> TRUE]
    /\ Slot(<< "w" >>) = [value |-> VNum(5), present |-> TRUE]

\* ------------------------------------------------------------------------
\* C3: at every point of the scan, an option token and the same token with
\* its name part in upper case or in lower case have the same outcome: the
\* same error, or the same slots and unnamed array afterwards.
\* ------------------------------------------------------------------------
C3_NameCaseInsensitive ==
    (pc = "parseArgs" /\ i < Len(args) /\ isOption(args[i + 1])) =>
        /\ Scanned(UpperName(args[i + 1])) = Scanned(args[i + 1])
        /\ Scanned(LowerName(args[i + 1])) = Scanned(args[i + 1])

C3_Witness ==
    /\ Passed
    /\ args[i] = << "-", "N", "A", "M", "E", "=", "x" >>
    /\ Slot(<< "n", "a", "m", "e" >>) = [value |-> VStr(<< "x" >>), present |-> TRUE]
    /\ Slot(<< "N", "a", "m", "e" >>) = [value |-> VStr(<< "x" >>), present |-> TRUE]

\* ------------------------------------------------------------------------
\* C4: at every point from the end of parseSpec on, and so in the result
\* returned, every declaration that no token passed so far names (by its
\* primary name or its synonym, in any letter case) reports its declared
\* default with present = false under each of its keys; and a step of the
\* scan on a token leaves unchanged the slot of every declaration the token
\* does not name.  The specifications explored declare each name once.
\* ------------------------------------------------------------------------
C4_DefaultsKept ==
    Compiled =>
        \A k \in DeclIndices :
            (\A j \in 1..i : ~Naming(args[j], k)) =>
                \A key \in PrimaryKeys(DeclOf(k)) \cup SynonymKeys(DeclOf(k)) :
                    Slot(key) = [value |-> DefaultOf(k), present |-> FALSE]

C4_Frame ==
    (pc = "parseArgs" /\ i < Len(args)) =>
        \A k \in DeclIndices :
            ~Naming(args[i + 1], k) =>
                \A key \in PrimaryKeys(DeclOf(k)) \cup SynonymKeys(DeclOf(k)) :
                    objs'[result[key].id] = objs[result[key].id]

C4_UnnamedOptionsUntouched == [](C4_DefaultsKept) /\ [][C4_Frame]_vars

C4_Witness ==
    /\ pc = "returned"
    /\ \E k \in DeclIndices : \E j \in 1..i : Naming(args[j], k)
    /\ \E k \in DeclIndices : \A j \in 1..i : ~Naming(args[j], k)

\* ------------------------------------------------------------------------
\* C5: when a token fails, it is the first token of args that fails and the
\* error is its error; the failing step changes no slot and not the unnamed
\* array; after the failure nothing changes, no further token is passed and
\* result is never returned.
\* ------------------------------------------------------------------------
C5_FirstFailure ==
    /\ ScanFailed =>
          /\ i < Len(args)
          /\ Scanned(args[i + 1]).err = err
          /\ err # "none"
          /\ \A j \in 1..i : Scanned(args[j]).err = "none"
    /\ pc = "returned" => (err = "none" /\ i = Len(args))

C5_NoChangeOnFailure ==
    /\ (pc = "parseArgs" /\ pc' = "catch") =>
          (objs' = objs /\ unnamed' = unnamed /\ i' = i)
    /\ Failed =>
          /\ objs' = objs /\ unnamed' = unnamed /\ i' = i /\ err' = err
          /\ result' = result
          /\ pc' # "returned" /\ pc' # "parseArgs"

C5_FailFast == [](C5_FirstFailure) /\ [][C5_NoChangeOnFailure]_vars

\* a [dir] token whose first element is a directory and whose second is not
C5_Witness ==
    /\ pc = "thrown"
    /\ i = 1
    /\ args[2] = << "-", "d", "i", "r", "s", "=", "a", ";", "f" >>
    /\ err = "WrongKind"
    /\ Slot(<< "d", "i", "r", "s" >>) = [value |-> VNull, present |-> FALSE]

\* the key and the specObj an option token resolves to, by its name part
\* up to the first "="
KeyOf(t)  == toLowerCase(NamePart(t))
Known(t)  == isOption(t) /\ KeyOf(t) \in DOMAIN spec
TypeOf(t) == spec[KeyOf(t)].type

\* an option token of the given type that carries a non-empty raw value
Valued(t, type) ==
    Known(t) /\ TypeOf(t) = type /\ HasRaw(t) /\ RawValue(t) # << >>

\* ------------------------------------------------------------------------
\* C6: once the scan has passed a token of a str option that holds an "=",
\* the option's slot holds everything after the token's first "=", later
\* "=" included (-name=a=b stores a=b), with present = true.
\* Fails: the code keeps only the text between the first two "=".
\* ------------------------------------------------------------------------
C6_SplitAtFirstEquals ==
    (Passed /\ Valued(args[i], TStr)) =>
        Slot(trimArg(KeyOf(args[i]))) =
            [value |-> VStr(RawValue(args[i])), present |-> TRUE]

\* ------------------------------------------------------------------------
\* C7: a token of a list option whose value, case-folded, is a member of
\* the declared allowed set is accepted and stored as given with
\* present = true; one whose case-folded value is no member fails with
\* InvalidChoice.
\* Fails: the code tests the value as given against the lower-cased set.
\* ------------------------------------------------------------------------
C7_ListMembershipFolded ==
    /\ (Passed /\ Valued(args[i], TList) /\ spec[KeyOf(args[i])].hasList) =>
          /\ toLowerCase(RawValue(args[i])) \in spec[KeyOf(args[i])].allowedValues
          /\ Slot(trimArg(KeyOf(args[i]))) =
                [value |-> VStr(RawValue(args[i])), present |-> TRUE]
    /\ (ScanFailed /\ Valued(args[i + 1], TList)
           /\ spec[KeyOf(args[i + 1])].hasList) =>
          /\ toLowerCase(RawValue(args[i + 1]))
                \notin spec[KeyOf(args[i + 1])].allowedValues
          /\ err = "InvalidChoice"

\* ------------------------------------------------------------------------
\* C8: a token of a num option whose raw value holds only digits, commas
\* and underscores is stored as the integer its digits denote, with
\* present = true; one whose raw value holds another character fails with
\* InvalidNumber.
\* Fails: a raw value of separators only is stored as NaN, and the throw
\* of the invalid-number error reads an undeclared variable.
\* ------------------------------------------------------------------------
C8_NumIsInteger ==
    /\ (Passed /\ Valued(args[i], TNum)) =>
          /\ ~HasNonNumberChar(RawValue(args[i]))
          /\ Slot(trimArg(KeyOf(args[i]))) =
                [value   |-> VNum(DecimalValue(StripSeparators(RawValue(args[i])))),
                 present |-> TRUE]
    /\ (ScanFailed /\ Valued(args[i + 1], TNum)) =>
          /\ HasNonNumberChar(RawValue(args[i + 1]))
          /\ err = "InvalidNumber"

\* ------------------------------------------------------------------------
\* C9: from the end of parseSpec on, for every declaration the
\* prefix-stripped primary name, as declared and lower-cased, and the
\* prefix-stripped synonym, as declared and lower-cased, are keys of result
\* that refer to one resultObj, which holds the declared default and
\* present = false before the first token is scanned.
\* Fails: the synonym gets its lower-cased key only.
\* ------------------------------------------------------------------------
C9_ResultKeys ==
    Compiled =>
        \A k \in DeclIndices :
            LET d    == DeclOf(k)
                keys == { trimArg(d.arg1), trimArg(toLowerCase(d.arg1)) }
                          \cup (IF d.hasArg2
                                THEN { trimArg(d.arg2), trimArg(toLowerCase(d.arg2)) }
                                ELSE {})
            IN /\ \A key \in keys :
                     /\ key \in DOMAIN result
                     /\ result[key].kind = "obj"
                     /\ (pc = "parseArgs" /\ i = 0) =>
                           Slot(key) = [value |-> DefaultOf(k), present |-> FALSE]
               /\ \A k1, k2 \in keys : result[k1] = result[k2]

\* ------------------------------------------------------------------------
\* C10 as stated: in the result returned, the value of every list option
\* with a declared allowed set is a member of that set, supplied or not.
\* ------------------------------------------------------------------------
C10_ListValueAlwaysAllowed ==
    pc = "returned" =>
        \A k \in DeclIndices :
            (DeclOf(k).type = TList /\ DeclOf(k).hasList) =>
                \A key \in PrimaryKeys(DeclOf(k)) \cup SynonymKeys(DeclOf(k)) :
                    /\ Slot(key).value.t = "str"
                    /\ Slot(key).value.s \in AllowedValuesOf(DeclOf(k).list)

\* ------------------------------------------------------------------------
\* C10 amended: in the result returned, the value of every list option
\* with a declared allowed set that was supplied (present = true) is a
\* member of that set; one that was not supplied holds its declared
\* default, which is not checked against the set.
\* ------------------------------------------------------------------------
C10_SuppliedListValueAllowed ==
    pc = "returned" =>
        \A k \in DeclIndices :
            (DeclOf(k).type = TList /\ DeclOf(k).hasList) =>
                \A key \in PrimaryKeys(DeclOf(k)) \cup SynonymKeys(DeclOf(k)) :
                    IF Slot(key).present
                    THEN /\ Slot(key).value.t = "str"
                         /\ Slot(key).value.s \in AllowedValuesOf(DeclOf(k).list)
                    ELSE Slot(key).value = DefaultOf(k)

C10_Witness ==
    /\ pc = "returned"
    /\ data = ChoiceData
    /\ Slot(<< "m", "o", "d", "e" >>) = [value |-> VStr(<< "f", "a", "s", "t" >>), present |-> TRUE]
    /\ Slot(<< "S", "o", "r", "t" >>) = [value |-> VNull, present |-> FALSE]

\* the checkFile kind of each path type, and the path types
KindOfType(type) ==
    IF type = TDir \/ type = TDirs THEN "dir"
    ELSE IF type = TFile \/ type = TFiles THEN "file"
    ELSE "filepath"

PathTypes == { TDir, TFile, TFilePath, TDirs, TFiles }

\* an option token of a path type that carries a non-empty raw value
PathToken(t) == \E type \in PathTypes : Valued(t, type)

\* the paths a path token supplies, in the order supplied
SuppliedPaths(t) ==
    IF TypeOf(t) = TDirs \/ TypeOf(t) = TFiles
    THEN split(RawValue(t), ";")
    ELSE << RawValue(t) >>

\* the path probed for a supplied path, and what the filesystem holds
\* there: "file", "dir", or "none" when no entry can be reached by it
ProbedPath(p, kind) == IF kind = "filepath" THEN dirname(p) ELSE p
ProbedKind(p, kind) ==
    LET r == statSync(fs, ProbedPath(p, kind))
    IN IF r = "file" \/ r = "dir" THEN r ELSE "none"

\* the outcome the validation is to have on a supplied path
Verdict(p, kind) ==
    IF ProbedKind(p, kind) = "none" THEN "NotFound"
    ELSE IF ProbedKind(p, kind) = (IF kind = "file" THEN "file" ELSE "dir") THEN "ok"
    ELSE "WrongKind"

\* the value a path token is to store once every supplied path passed
StoredPaths(t) ==
    IF TypeOf(t) = TDirs \/ TypeOf(t) = TFiles
    THEN VArr([k \in 1..Len(SuppliedPaths(t)) |-> resolve(SuppliedPaths(t)[k])])
    ELSE VStr(resolve(RawValue(t)))

ProbeOutcome(p, kind) ==
    LET r == statSync(fs, ProbedPath(p, kind))
    IN IF r = "ENOENT" THEN "NotFound"
       ELSE IF r = "ENOTDIR" THEN "ENOTDIR"
       ELSE IF r = (IF kind = "file" THEN "file" ELSE "dir") THEN "ok"
       ELSE "WrongKind"

KeysOf(k) == PrimaryKeys(DeclOf(k)) \cup SynonymKeys(DeclOf(k))

\* the declarations of type flag
FlagDecls == { k \in DeclIndices : DeclOf(k).type = TFlag }

\* ------------------------------------------------------------------------
\* C12: from the end of parseSpec on, the value of every flag option
\* (declared, as in every specification explored, with a boolean default)
\* is a boolean; once the scan has passed a token naming the flag, with or
\* without an "=value" part, its value is true and present is true, at that
\* point and at every later one; a step never changes a flag slot to
\* anything but value true with present true, so a flag whose value is
\* false was declared with the default false and is not present.
\* ------------------------------------------------------------------------
C12_FlagState ==
    Compiled =>
        \A k \in FlagDecls : \A key \in KeysOf(k) :
            /\ Slot(key).value.t = "bool"
            /\ (\E j \in 1..i : Naming(args[j], k)) =>
                  Slot(key) = [value |-> VBool(TRUE), present |-> TRUE]
            /\ Slot(key).value = VBool(FALSE) =>
                  (~Slot(key).present /\ DefaultOf(k) = VBool(FALSE))

C12_FlagStep ==
    (pc = "parseArgs" \/ Failed) =>
        \A k \in FlagDecls : \A key \in KeysOf(k) :
            /\ objs'[result[key].id] # objs[result[key].id] =>
                  objs'[result[key].id] = [value |-> VBool(TRUE), present |-> TRUE]
            /\ Slot(key) = [value |-> VBool(TRUE), present |-> TRUE] =>
                  objs'[result[key].id] = Slot(key)

====
